---- MODULE Spec2Model ----
(***************************************************************************)
(* Model of self_orthogonal_binary_codes (src/commented/databases.py), the *)
(* recursive generator that enumerates self-orthogonal binary codes.       *)
(*                                                                         *)
(* A matrix is identified by the way it was built: a sequence of           *)
(* [cols, cls] entries, one per row.  The first entry is the all-ones seed *)
(* row, every further entry is one generate_children extension to `cols`   *)
(* columns; `cls` is the permutation-equivalence class, among matrices of  *)
(* that shape, of the matrix the classifier returned.  The generator stack *)
(* of nested Python generator frames is the variable `stack`; a value that *)
(* has been yielded by a frame and is travelling up to the consumer is     *)
(* `inflight`.                                                             *)
(***************************************************************************)
EXTENDS Integers, Sequences, FiniteSets, TLC

\* ---------------------------------------------------------------- bounds
MaxN == 5
MaxK == 4
MaxNegB == 3
MaxB == 4
NumCls == 2
MaxChildren == 3

VARIABLES n, k, b, equal,   \* arguments of the top-level call
          pc,               \* "start" | "running" | "done" | "error"
          stack,            \* generator frames, top-level call first
          inflight,         \* <<>> or <<[val, level]>>: value yielded by frame `level`
          out,              \* codes received by the consumer, in order
          visited,          \* matrices for which LinearCode(parent) was built
          seeds,            \* seed matrices constructed by the top-level call
          calls             \* log of BC.generate_children calls

vars == <<n, k, b, equal, pc, stack, inflight, out, visited, seeds, calls>>

\* ------------------------------------------------------- matrices, codes
None == <<>>

nrows(M) == Len(M)

ncols(M) == M[Len(M)].cols

\* Matrix(FiniteField(2), [[1]*j])
AllOnes(j) == <<[cols |-> j, cls |-> 0]>>

\* LinearCode(parent): length and dimension of the wrapped generator matrix
LinearCode(M) == [matrix |-> M, length |-> ncols(M), dimension |-> nrows(M)]

\* ------------------------------------------------------------ validation
\* d != b or d%2 == 1 or d <= 0   (b is an integer here, so int(b) = b)
InvalidBNoSign(bb) == (bb % 2) = 1

InvalidB(bb) == (bb % 2) = 1 \/ bb <= 0

DegenerateNoK(nn, kk) == nn < 2

Degenerate(nn, kk) == kk < 1 \/ nn < 2

\* --------------------------------------------------------------- filters
\* the if equal / else block: the in_test argument is overwritten
FiltersKeepPassed(eq, passed) ==
    IF eq THEN [in_test |-> "RoomBound", out_test |-> "ExactSize"]
          ELSE [in_test |-> IF passed = "None" THEN "Always" ELSE passed,
                out_test |-> "Always"]

FiltersNoOutput(eq, passed) ==
    IF eq THEN [in_test |-> "RoomBound", out_test |-> "Always"]
          ELSE [in_test |-> "Always", out_test |-> "Always"]

FiltersAlwaysExact(eq, passed) ==
    [in_test |-> "RoomBound", out_test |-> "ExactSize"]

Filters(eq, passed) ==
    IF eq THEN [in_test |-> "RoomBound", out_test |-> "ExactSize"]
          ELSE [in_test |-> "Always", out_test |-> "Always"]

in_test(tag, M) ==
    IF tag = "RoomBound" THEN (ncols(M) - nrows(M)) <= (n - k) ELSE TRUE

out_test(tag, C) ==
    IF tag = "ExactSize" THEN (C.dimension = k) /\ (C.length = n) ELSE TRUE

\* --------------------------------------------------------------- frames
\* A frame of the generator: its arguments, the filters its prologue
\* computed, and its position (phase, loop variable, children still to
\* iterate).  The recursive calls pass in_test but not equal.
Frame(parent, eq, passed, phase, idx) ==
    [parent |-> parent, equal |-> eq, passed |-> passed,
     in_test |-> Filters(eq, passed).in_test,
     out_test |-> Filters(eq, passed).out_test,
     phase |-> phase, idx |-> idx, kids |-> <<>>]

Top == stack[Len(stack)]

\* self_orthogonal_binary_codes(n, k, d, M, BC, in_test=in_test) on a seed
SeedCall(M, passed) == Frame(M, FALSE, passed, "entry", 0)

\* self_orthogonal_binary_codes(n, k, d, child, BC, in_test=in_test)
ChildCallOnParent(child, passed) == Frame(Top.parent, FALSE, passed, "entry", 0)

ChildCall(child, passed) == Frame(child, FALSE, passed, "entry", 0)

Pop == SubSeq(stack, 1, Len(stack) - 1)

SetTop(f) == [stack EXCEPT ![Len(stack)] = f]

\* ------------------------------------------------------ child generator
RECURSIVE SortedSeq(_)
SortedSeq(S) ==
    IF S = {} THEN <<>>
    ELSE LET m == CHOOSE x \in S : \A y \in S : x <= y
         IN <<m>> \o SortedSeq(S \ {m})

\* children the classifier has returned so far in this run
RECURSIVE Made(_)
Made(cs) == IF cs = <<>> THEN 0 ELSE Len(Head(cs).result) + Made(Tail(cs))

\* BC.generate_children(BinaryCode(parent), nn, d): matrices with one more
\* row and nn columns, pairwise inequivalent within the call
ChildSets == {S \in SUBSET (1..NumCls) : Cardinality(S) <= MaxChildren - Made(calls)}

generate_children(parent, nn, S) ==
    LET cl == SortedSeq(S)
    IN [i \in 1..Len(cl) |-> Append(parent, [cols |-> nn, cls |-> cl[i]])]

\* ------------------------------------------------------------ loop bounds
FirstNNSkip(M) == ncols(M) + 2

FirstNN(M) == ncols(M) + 1

\* end of range(parent.ncols()+1, n+1)
NNDoneLate(nn) == nn > n + 1

NNDone(nn) == nn > n

DimCeilingNever(kk, M) == FALSE

DimCeiling(kk, M) == kk = nrows(M)

\* ------------------------------------------------------------------ Init
Init ==
    /\ n \in 0..MaxN
    /\ k \in 0..MaxK
    /\ b \in (0 - MaxNegB)..MaxB
    /\ equal \in BOOLEAN
    /\ pc = "start"
    /\ stack = <<>>
    /\ inflight = <<>>
    /\ out = <<>>
    /\ visited = <<>>
    /\ seeds = <<>>
    /\ calls = <<>>

\* --------------------------------------------------------------- actions
\* first next() on the top-level generator: validation, degenerate inputs,
\* filter selection, entry into the seed loop
Start ==
    /\ pc = "start"
    /\ IF InvalidB(b)
         THEN pc' = "error" /\ stack' = stack
         ELSE IF Degenerate(n, k)
                THEN pc' = "done" /\ stack' = stack
                ELSE /\ pc' = "running"
                     /\ stack' = <<Frame(None, equal, "None", "seeds", b)>>
    /\ UNCHANGED <<n, k, b, equal, inflight, out, visited, seeds, calls>>

\* one iteration of  for j in range(d, n+1, d)  in the top-level call
SeedLoop ==
    /\ pc = "running" /\ inflight = <<>>
    /\ Len(stack) = 1 /\ Top.phase = "seeds"
    /\ IF Top.idx > n
         THEN /\ stack' = <<>>
              /\ pc' = "done"
              /\ seeds' = seeds
         ELSE LET M == AllOnes(Top.idx)
                  f == [Top EXCEPT !.idx = @ + b]
              IN /\ seeds' = Append(seeds, M)
                 /\ pc' = pc
                 /\ stack' = IF in_test(Top.in_test, M)
                               THEN <<f, SeedCall(M, Top.in_test)>>
                               ELSE <<f>>
    /\ UNCHANGED <<n, k, b, equal, inflight, out, visited, calls>>

\* entry of a recursive call: C = LinearCode(parent); if out_test(C): yield C
Visit ==
    /\ pc = "running" /\ inflight = <<>>
    /\ Len(stack) > 1 /\ Top.phase = "entry"
    /\ LET C == LinearCode(Top.parent)
       IN /\ visited' = Append(visited, Top.parent)
          /\ inflight' = IF out_test(Top.out_test, C)
                           THEN <<[val |-> C, level |-> Len(stack)]>>
                           ELSE <<>>
    /\ stack' = SetTop([Top EXCEPT !.phase = "yielded"])
    /\ UNCHANGED <<n, k, b, equal, pc, out, seeds, calls>>

\* a yielded value reaches the caller of the frame that yielded it: the
\* consumer, or an enclosing frame that re-applies its out_test and yields
Deliver ==
    /\ pc = "running" /\ inflight # <<>>
    /\ LET v == inflight[1]
       IN IF v.level = 1
            THEN /\ out' = Append(out, v.val)
                 /\ inflight' = <<>>
            ELSE /\ out' = out
                 /\ inflight' = IF out_test(stack[v.level - 1].out_test, v.val)
                                  THEN <<[v EXCEPT !.level = @ - 1]>>
                                  ELSE <<>>
    /\ UNCHANGED <<n, k, b, equal, pc, stack, visited, seeds, calls>>

\* if k == parent.nrows(): return, else enter the nn loop
CheckDim ==
    /\ pc = "running" /\ inflight = <<>>
    /\ Len(stack) > 1 /\ Top.phase = "yielded"
    /\ stack' = IF DimCeiling(k, Top.parent)
                  THEN Pop
                  ELSE SetTop([Top EXCEPT !.phase = "loop",
                                          !.idx = FirstNN(Top.parent)])
    /\ UNCHANGED <<n, k, b, equal, pc, inflight, out, visited, seeds, calls>>

\* one iteration of  for nn in range(parent.ncols()+1, n+1)
LoopNN ==
    /\ pc = "running" /\ inflight = <<>>
    /\ Len(stack) > 1 /\ Top.phase = "loop" /\ Top.kids = <<>>
    /\ IF NNDone(Top.idx)
         THEN stack' = Pop /\ calls' = calls
         ELSE IF in_test(Top.in_test, Top.parent)
                THEN \E S \in ChildSets :
                       LET res == generate_children(Top.parent, Top.idx, S)
                       IN /\ calls' = Append(calls, [parent |-> Top.parent,
                                                     nn |-> Top.idx, d |-> b,
                                                     result |-> res])
                          /\ stack' = SetTop([Top EXCEPT !.idx = @ + 1,
                                                         !.kids = res])
                ELSE /\ calls' = calls
                     /\ stack' = SetTop([Top EXCEPT !.idx = @ + 1])
    /\ UNCHANGED <<n, k, b, equal, pc, inflight, out, visited, seeds>>

\* one iteration of  for child in BC.generate_children(...): recurse
NextChild ==
    /\ pc = "running" /\ inflight = <<>>
    /\ Len(stack) > 1 /\ Top.phase = "loop" /\ Top.kids # <<>>
    /\ stack' = Append(SetTop([Top EXCEPT !.kids = Tail(@)]),
                       ChildCall(Head(Top.kids), Top.in_test))
    /\ UNCHANGED <<n, k, b, equal, pc, inflight, out, visited, seeds, calls>>

Next == Start \/ SeedLoop \/ Visit \/ Deliver \/ CheckDim \/ LoopNN \/ NextChild

Spec == Init /\ [][Next]_vars

\* the consumer keeps calling next() until the generator is exhausted
FairSpec == Spec /\ WF_vars(Next)


\* ===================================================== checked properties
ValidB == b > 0 /\ b % 2 = 0

Started == pc # "start"

Finished == pc \in {"done", "error"}

Front(M) == SubSeq(M, 1, Len(M) - 1)

\* permutation equivalence of two codes: same shape and same class
Equivalent(C1, C2) ==
    /\ C1.length = C2.length
    /\ C1.dimension = C2.dimension
    /\ C1.matrix[Len(C1.matrix)].cls = C2.matrix[Len(C2.matrix)].cls

MatricesOf(cs) == [i \in 1..Len(cs) |-> cs[i].matrix]

Delivered == MatricesOf(out) \o MatricesOf([i \in 1..Len(inflight) |-> inflight[i].val])

\* C1: if b is not a positive even integer, consuming the generator ends in
\* the ValueError outcome and nothing is yielded (or built) before it, also
\* when k < 1 or n < 2.
C1_InvalidBRaises ==
    (~ValidB /\ Started) =>
        (pc = "error" /\ out = <<>> /\ inflight = <<>> /\ stack = <<>>
         /\ visited = <<>> /\ seeds = <<>> /\ calls = <<>>)

C1_Witness == pc = "error" /\ b < 0 /\ k < 1 /\ n < 2

\* C2: with equal = true every code that reaches the consumer has length
\* exactly n and dimension exactly k.
C2_ExactSizeOutput ==
    equal => \A i \in 1..Len(out) : out[i].length = n /\ out[i].dimension = k

C2_Witness ==
    /\ equal /\ out # <<>>
    /\ \E i \in 1..Len(visited) : nrows(visited[i]) # k \/ ncols(visited[i]) # n

C4_OutputWithinBounds ==
    \A i \in 1..Len(out) :
        /\ 1 <= out[i].dimension /\ out[i].dimension <= k
        /\ out[i].length <= n

C4_Witness ==
    /\ ~equal /\ k >= 2
    /\ \E i \in 1..Len(out) : out[i].dimension = k /\ out[i].length = n
    /\ \E i \in 1..Len(out) : out[i].dimension < k /\ out[i].length < n

\* C5: for valid b, if k < 1 or n < 2 the generator finishes normally having
\* yielded nothing, built no seed and never called the child generator.
C5_DegenerateIsEmpty ==
    (ValidB /\ (k < 1 \/ n < 2) /\ Started) =>
        (pc = "done" /\ out = <<>> /\ inflight = <<>> /\ stack = <<>>
         /\ visited = <<>> /\ seeds = <<>> /\ calls = <<>>)

C5_Witness == pc = "done" /\ ValidB /\ k < 1 /\ n >= 2

\* C6 (as stated): with equal = true the child generator is never asked for
\* children of a node whose matrix has cols - rows > n - k, at any depth.
C6_InTestGatesEveryNode ==
    equal => \A i \in 1..Len(calls) :
                (ncols(calls[i].parent) - nrows(calls[i].parent)) <= (n - k)

\* C7: with equal = false every visited node is delivered to the consumer
\* exactly once, in visiting order: what has been delivered (plus the value
\* on its way up) is exactly the list of visited nodes, which has no repeats.
C7_VisitedDeliveredOnce ==
    ~equal =>
        /\ Delivered = visited
        /\ \A i, j \in 1..Len(visited) : i < j => visited[i] # visited[j]
        /\ pc = "done" => MatricesOf(out) = visited

C7_Witness ==
    /\ ~equal /\ pc = "done"
    /\ \E i \in 1..Len(out) : out[i].dimension >= 3
    /\ Len(out) >= 4

\* the target column counts, in call order, for which the child generator
\* was asked for children of M
RECURSIVE AskedFor(_, _)
AskedFor(M, cs) ==
    IF cs = <<>> THEN <<>>
    ELSE (IF Head(cs).parent = M THEN <<Head(cs).nn>> ELSE <<>>) \o AskedFor(M, Tail(cs))

Range(lo, hi) == [i \in 1..(IF hi >= lo THEN hi - lo + 1 ELSE 0) |-> lo + i - 1]

IsVisited(M) == \E i \in 1..Len(visited) : visited[i] = M

\* C8: with equal = false, for every visited node with rows < k the child
\* generator is asked exactly once for each nn in cols+1 .. n, ascending, with
\* divisor b, and for nothing else; every returned child is visited.
C8_ChildrenAskedPerTarget ==
    ~equal =>
        /\ \A i \in 1..Len(calls) :
              /\ calls[i].d = b
              /\ IsVisited(calls[i].parent)
              /\ nrows(calls[i].parent) < k
        /\ \A i \in 1..Len(visited) :
              LET M == visited[i]
                  asked == AskedFor(M, calls)
              IN /\ Len(asked) <= n - ncols(M)
                 /\ asked = Range(ncols(M) + 1, ncols(M) + Len(asked))
        /\ pc = "done" =>
              /\ \A i \in 1..Len(visited) :
                    nrows(visited[i]) < k =>
                        AskedFor(visited[i], calls) = Range(ncols(visited[i]) + 1, n)
              /\ \A i \in 1..Len(calls) : \A c \in 1..Len(calls[i].result) :
                    IsVisited(calls[i].result[c])

C8_Witness ==
    /\ ~equal /\ pc = "done"
    /\ \E i \in 1..Len(visited) :
          /\ nrows(visited[i]) < k
          /\ Len(AskedFor(visited[i], calls)) >= 2
          /\ \E c \in 1..Len(calls) :
                calls[c].parent = visited[i] /\ calls[c].result # <<>>

\* depth of the recursion and size of the nodes, for valid b and k >= 1
C9_DepthBounded ==
    (ValidB /\ k >= 1) =>
        /\ Len(stack) - 1 <= k
        /\ \A i \in 1..Len(visited) : nrows(visited[i]) <= k
        /\ \A i \in 1..Len(calls) : nrows(calls[i].parent) < k

\* C9: a fully consumed enumeration terminates, and for valid b and k >= 1
\* the recursion depth never exceeds k, no visited node has more than k rows
\* and a node with k rows is never expanded.
C9_Terminates == []C9_DepthBounded /\ <>Finished

C9_Witness ==
    /\ pc = "done" /\ k >= 2 /\ Len(calls) >= 2
    /\ \E i \in 1..Len(visited) : nrows(visited[i]) = k

\* the result the child generator gave for (M, nn), read back from the log
CallsFor(M, nn) == {i \in 1..Len(calls) : calls[i].parent = M /\ calls[i].nn = nn}

ResultOf(M, nn) ==
    IF CallsFor(M, nn) = {} THEN <<>>
    ELSE calls[CHOOSE i \in CallsFor(M, nn) : TRUE].result

\* the unrestricted depth-first enumeration below M for that child generator
RECURSIVE Subtree(_), OverNN(_, _), OverKids(_)
Subtree(M) ==
    <<M>> \o (IF nrows(M) >= k THEN <<>> ELSE OverNN(M, ncols(M) + 1))

OverNN(M, nn) ==
    IF nn > n THEN <<>> ELSE OverKids(ResultOf(M, nn)) \o OverNN(M, nn + 1)

OverKids(ks) ==
    IF ks = <<>> THEN <<>> ELSE Subtree(Head(ks)) \o OverKids(Tail(ks))

RECURSIVE OverSeeds(_, _)
OverSeeds(j, onlyAdmitted) ==
    IF j > n THEN <<>>
    ELSE (IF onlyAdmitted /\ (j - 1) > (n - k) THEN <<>> ELSE Subtree(AllOnes(j)))
         \o OverSeeds(j + b, onlyAdmitted)

\* every node of the traversal with rows < k was expanded for every nn
FullyExpanded ==
    \A i \in 1..Len(visited) :
        nrows(visited[i]) < k =>
            \A nn \in (ncols(visited[i]) + 1)..n :
                Cardinality(CallsFor(visited[i], nn)) = 1

IsExact(M) == nrows(M) = k /\ ncols(M) = n

====
